---- MODULE Spec2Model ----
(***************************************************************************)
(* Model of src/main.py: the ticket aggregation (analyze_data), the record  *)
(* loader (process_file), the collation / validation run                    *)
(* (collate_and_analyze_json_files) and the entry point (__main__).         *)
(*                                                                         *)
(* Python values are modelled as follows.  A dict is a record whose DOMAIN  *)
(* is its key set ('k' in d  <=>  "k" \in DOMAIN d).  A list is a sequence. *)
(* A defaultdict(int) is a total function with value 0 for untouched keys;  *)
(* since the code only increments, dict(d) has exactly the keys with a      *)
(* count > 0.  Custom-field ids are JSON integers; the largest one does not *)
(* fit a 32-bit integer, so ids are written as their decimal strings.       *)
(*                                                                         *)
(* Inputs are those of the documented schema: a ticket is an object,        *)
(* created_at is absent or a string, tags is a list of strings and          *)
(* custom_fields a list of {id, value} objects; files can be read and       *)
(* written.                                                                 *)
(***************************************************************************)
EXTENDS Integers, Sequences, FiniteSets, TLC

VARIABLES
    \* ---- the file system ----
    files,            \* the input folder, in os.listdir order
    merged,           \* content of output_file (combined.json), or NoFile
    reports,          \* <stem>_analysis.xlsx per stem, or NoFile
    combined_report,  \* content of combined_analysis_file, or NoFile
    log,              \* the records logged by the current process
    \* ---- the running process ----
    pc,               \* position of the process
    split_files,      \* local of collate_and_analyze_json_files
    idx,              \* number of split files already processed by the loop
    all_data,         \* local of collate_and_analyze_json_files
    combined_analysis_stats,
    exc,              \* the exception in flight, or NoExc
    \* ---- bookkeeping used to state properties ----
    runs,             \* processes launched so far
    at_start,         \* the output artefacts when the current process started
    calls,            \* calls and writes made by the current process
    dir_changed,      \* the input folder was edited since the previous launch
    \* ---- one call of analyze_data, entry by entry ----
    acc,              \* the accumulators of analyze_data
    entry,            \* the loop variable of analyze_data
    apc               \* position inside analyze_data

vars == <<files, merged, reports, combined_report, log, pc, split_files, idx,
          all_data, combined_analysis_stats, exc, runs, at_start, calls,
          dir_changed, acc, entry, apc>>

pipeline_vars == <<files, merged, reports, combined_report, pc, split_files, idx,
                   all_data, combined_analysis_stats, exc, runs, at_start, calls,
                   dir_changed>>

analysis_vars == <<acc, entry, apc>>

--------------------------------------------------------------------------------
(* Bounds of the model *)

MaxEntries == 2     \* entries given to one stepped call of analyze_data
MaxFields == 2      \* custom fields of a ticket
MaxFiles == 2       \* files in the input folder
MaxRuns == 2        \* launches of the process

--------------------------------------------------------------------------------
(* Python helpers *)

None == "None"

SeqsUpTo(S, k) == UNION {[1..m -> S] : m \in 0..k}

\* Python truthiness of a custom-field value (None and "" are falsy).
Truthy(v) == v \notin {None, ""}

\* The element of a one-element set.  Only({F(x) : x \in {v}}) is F applied to
\* the value of v, with v evaluated once (a local assignment).
Only(S) == CHOOSE r \in S : TRUE

\* d.get(key, default)
Get(d, key, default) == IF key \in DOMAIN d THEN d[key] ELSE default

\* d[k] += 1 on a defaultdict(int)
Inc(d, k) == [d EXCEPT ![k] = @ + 1]

RECURSIVE SumOver(_, _)
SumOver(d, keys) ==
    IF keys = {} THEN 0
    ELSE LET k == CHOOSE x \in keys : TRUE IN d[k] + SumOver(d, keys \ {k})

\* sum(d.values())
sum_values(d) == SumOver(d, DOMAIN d)

\* dict(d): the keys a defaultdict(int) holds after increments only
dict_keys(d) == {k \in DOMAIN d : d[k] > 0}

--------------------------------------------------------------------------------
(* Input universe of analyze_data *)

\* A created_at string, by the features datetime.strptime looks at: whether
\* the "YYYY-MM-DDTHH:MM:SS" part is well formed, whether a ".ffffff" fraction
\* follows, and what follows that ("Z", a numeric offset, or nothing).
TsZulu    == [text |-> "2023-05-01T10:00:00.000Z",      body |-> "ok",  year |-> 2023, frac |-> TRUE,  zone |-> "Z"]
TsOffset  == [text |-> "2024-12-31T23:30:00.000+0100",  body |-> "ok",  year |-> 2024, frac |-> TRUE,  zone |-> "offset"]
TsNoFrac  == [text |-> "2023-05-01T10:00:00Z",          body |-> "ok",  year |-> 2023, frac |-> FALSE, zone |-> "Z"]
TsGarbage == [text |-> "not-a-date",                    body |-> "bad", year |-> 0,    frac |-> FALSE, zone |-> "none"]

Timestamps == {TsZulu, TsOffset, TsNoFrac, TsGarbage}
Years == {t.year : t \in {t \in Timestamps : t.body = "ok"}}

TagNames == {"t1", "t2"}
TagLists == {<<>>, <<"t1">>, <<"t1", "t1", "t2">>}

FieldIds == {"38954747", "38829288", "38830788", "1500001654502", "360000000099"}
FieldValues == {"", "a", "b"}
Values == {v \in FieldValues : Truthy(v)}
Fields ==
    [id : FieldIds, value : {"", "a"}] \cup {[id |-> "38830788", value |-> "b"]}

\* Tickets that vary in their custom fields.
FieldTickets ==
    {[tags |-> <<>>, custom_fields |-> cf] : cf \in SeqsUpTo(Fields, MaxFields)}

\* Tickets that vary in created_at and tags, classified or not.
DateTickets ==
    {[created_at |-> c, tags |-> tg, custom_fields |-> cf] :
        c \in Timestamps, tg \in TagLists,
        cf \in {<<>>, <<[id |-> "38830788", value |-> "a"]>>}}
    \cup {[tags |-> tg, custom_fields |-> <<[id |-> "38830788", value |-> "b"]>>] :
            tg \in TagLists}

Tickets == FieldTickets \cup DateTickets

--------------------------------------------------------------------------------
(* analyze_data *)

FormatA == "%Y-%m-%dT%H:%M:%S.%fZ"
FormatB == "%Y-%m-%dT%H:%M:%S.%f%z"

\* datetime.strptime(s, fmt).year, or ValueError.  %f needs at least one digit
\* after the "."; the literal Z of format A matches only "Z"; %z matches a
\* numeric offset and (Python >= 3.7) "Z".
strptime(s, fmt) ==
    IF /\ s.body = "ok"
       /\ s.frac
       /\ \/ fmt = FormatA /\ s.zone = "Z"
          \/ fmt = FormatB /\ s.zone \in {"Z", "offset"}
    THEN [ok |-> TRUE, year |-> s.year]
    ELSE [ok |-> FALSE, year |-> 0]

FIELD_ID_TO_NAME(id) ==
    CASE id = "38954747"      -> "channel"
      [] id = "38829288"      -> "type_of_inquiry"
      [] id = "38830788"      -> "program_area"
      [] id = "1500001654502" -> "segment"
      [] OTHER                -> None

\* The accumulators at the top of analyze_data; `warnings` are the records the
\* call has logged.
InitialAcc ==
    [n |-> 0,
     created_at_year_count |-> [y \in Years |-> 0],
     tags_count |-> [t \in TagNames |-> 0],
     program_area_count |-> [v \in Values |-> 0],
     segment_count |-> [v \in Values |-> 0],
     channel_count |-> [v \in Values |-> 0],
     type_of_inquiry_count |-> [v \in Values |-> 0],
     spam_ticket_count |-> 0,
     unique_tags |-> {},
     unique_program_areas |-> {},
     unique_segments |-> {},
     unique_channels |-> {},
     unique_types_of_inquiry |-> {},
     warnings |-> <<>>]

InvalidDate(e) ==
    [level |-> "WARNING", msg |-> "Invalid date format for entry", arg |-> e.created_at.text]

\* A variant whose second handler swallows the failure without a warning.
CreatedAtStepSilent(a, e) ==
    IF "created_at" \in DOMAIN e /\ strptime(e.created_at, FormatA).ok
    THEN [a EXCEPT !.created_at_year_count = Inc(@, strptime(e.created_at, FormatA).year)]
    ELSE IF "created_at" \in DOMAIN e /\ strptime(e.created_at, FormatB).ok
    THEN [a EXCEPT !.created_at_year_count = Inc(@, strptime(e.created_at, FormatB).year)]
    ELSE a

\* Lines 77-86.
CreatedAtStep(a, e) ==
    IF "created_at" \in DOMAIN e
    THEN LET first == strptime(e.created_at, FormatA) IN
         IF first.ok
         THEN [a EXCEPT !.created_at_year_count = Inc(@, first.year)]
         ELSE LET second == strptime(e.created_at, FormatB) IN
              IF second.ok
              THEN [a EXCEPT !.created_at_year_count = Inc(@, second.year)]
              ELSE [a EXCEPT !.warnings = Append(@, InvalidDate(e))]
    ELSE a

\* Lines 89-93.
RECURSIVE TagsStep(_, _)
TagsStep(a, tags) ==
    IF tags = <<>> THEN a
    ELSE TagsStep([a EXCEPT !.tags_count = Inc(@, Head(tags)),
                            !.unique_tags = @ \cup {Head(tags)}],
                  Tail(tags))

\* Lines 103-125: one iteration of the custom-field loop.  w holds the
\* accumulators `a` and the four working values of the current ticket.
FieldStep(w, field) ==
    LET field_id == Get(field, "id", None)
        field_value == Get(field, "value", None)
        field_name == FIELD_ID_TO_NAME(field_id)
    IN
    CASE field_name = "program_area" ->
           [w EXCEPT !.program_area = field_value,
                     !.a.program_area_count =
                         IF Truthy(field_value) THEN Inc(@, field_value) ELSE @,
                     !.a.unique_program_areas =
                         IF Truthy(field_value) THEN @ \cup {field_value} ELSE @]
      [] field_name = "segment" ->
           [w EXCEPT !.segment = field_value,
                     !.a.segment_count =
                         IF Truthy(field_value) THEN Inc(@, field_value) ELSE @,
                     !.a.unique_segments =
                         IF Truthy(field_value) THEN @ \cup {field_value} ELSE @]
      [] field_name = "channel" ->
           [w EXCEPT !.channel = field_value,
                     !.a.channel_count =
                         IF Truthy(field_value) THEN Inc(@, field_value) ELSE @,
                     !.a.unique_channels =
                         IF Truthy(field_value) THEN @ \cup {field_value} ELSE @]
      [] field_name = "type_of_inquiry" ->
           [w EXCEPT !.type_of_inquiry = field_value,
                     !.a.type_of_inquiry_count =
                         IF Truthy(field_value) THEN Inc(@, field_value) ELSE @,
                     !.a.unique_types_of_inquiry =
                         IF Truthy(field_value) THEN @ \cup {field_value} ELSE @]
      [] OTHER -> w

\* Lines 102-125: the custom-field loop.
RECURSIVE FieldLoop(_, _)
FieldLoop(w, custom_fields) ==
    IF custom_fields = <<>> THEN w
    ELSE FieldLoop(FieldStep(w, Head(custom_fields)), Tail(custom_fields))

\* Lines 96-100: the working values before the loop.
Working(a) ==
    [a |-> a, program_area |-> None, segment |-> None, channel |-> None,
     type_of_inquiry |-> None]

\* Lines 127-128.
SpamStep(w) ==
    IF ~Truthy(w.program_area)
    THEN [w.a EXCEPT !.spam_ticket_count = @ + 1]
    ELSE w.a

\* Lines 75-128: the body of the loop over data_entries, for one entry.
AnalyzeEntry(a, e) ==
    LET a1 == CreatedAtStep(a, e)
        a2 == TagsStep(a1, Get(e, "tags", <<>>))
        w  == FieldLoop(Working(a2), Get(e, "custom_fields", <<>>))
        a3 == Only({SpamStep(x) : x \in {w}})
    IN [a3 EXCEPT !.n = @ + 1]

\* Lines 131-147: the result; total_tickets is len(data_entries), which is the
\* number of iterations made.
Result(a) ==
    [total_tickets |-> a.n,
     created_at_year_count |-> a.created_at_year_count,
     tags_count |-> a.tags_count,
     program_area_count |-> a.program_area_count,
     segment_count |-> a.segment_count,
     channel_count |-> a.channel_count,
     type_of_inquiry_count |-> a.type_of_inquiry_count,
     spam_ticket_count |-> a.spam_ticket_count,
     unique_tags |-> a.unique_tags,
     unique_program_areas |-> a.unique_program_areas,
     unique_segments |-> a.unique_segments,
     unique_channels |-> a.unique_channels,
     unique_types_of_inquiry |-> a.unique_types_of_inquiry]

RECURSIVE AnalyzeLoop(_, _)
AnalyzeLoop(a, data_entries) ==
    IF data_entries = <<>> THEN a
    ELSE Only({AnalyzeLoop(x, Tail(data_entries)) :
                  x \in {AnalyzeEntry(a, Head(data_entries))}})

\* analyze_data(data_entries): the statistics and the warnings logged.
analyze_data(data_entries) ==
    Only({[stats |-> Result(a), warnings |-> a.warnings] :
             a \in {AnalyzeLoop(InitialAcc, data_entries)}})

--------------------------------------------------------------------------------
(* Files *)

\* An absent file is <<>>; a file with content c is <<c>>.
NoFile == <<>>
File(c) == <<c>>
Exists(f) == f # NoFile
Content(f) == f[1]

ProgramArea(v) == [id |-> "38830788", value |-> v]

\* Tickets of the source files.
Classified  == [created_at |-> TsZulu, tags |-> <<"t1">>, custom_fields |-> <<ProgramArea("a")>>]
ClassifiedB == [created_at |-> TsOffset, tags |-> <<>>, custom_fields |-> <<ProgramArea("b")>>]
Unclassified == [tags |-> <<"t2">>, custom_fields |-> <<>>]
Blanked     == [tags |-> <<>>, custom_fields |-> <<ProgramArea("a"), ProgramArea("")>>]

\* A line of a source file, by what json.loads makes of it.
Invalid == [json |-> "invalid", items |-> <<>>]
Object(t) == [json |-> "object", items |-> <<t>>]
List(ts) == [json |-> "list", items |-> ts]

\* The files an operator may have put in the input folder.  A name is a stem
\* and an extension.
SourceFiles ==
    {[stem |-> "a", ext |-> ".json",
      lines |-> <<List(<<Classified, ClassifiedB>>), Invalid, Object(Unclassified)>>],
     [stem |-> "b", ext |-> ".json",
      lines |-> <<Object(Classified), Object(ClassifiedB)>>],
     [stem |-> "c", ext |-> ".json", lines |-> <<Object(Unclassified)>>],
     [stem |-> "d", ext |-> ".json", lines |-> <<Object(Blanked)>>],
     [stem |-> "e", ext |-> ".json", lines |-> <<List(<<>>), Invalid>>],
     [stem |-> "notes", ext |-> ".txt", lines |-> <<Invalid>>]}

Stems == {f.stem : f \in SourceFiles}

\* Input folders: up to MaxFiles distinct files, in any listing order.
Folders ==
    {d \in SeqsUpTo(SourceFiles, MaxFiles) :
        \A i, j \in DOMAIN d : i # j => d[i].stem # d[j].stem}

\* Merged datasets a run on other folder contents may have left behind.
StaleMerged ==
    {<<>>, <<Unclassified>>, <<Classified, ClassifiedB>>,
     <<Unclassified, Unclassified, Classified, Classified, ClassifiedB>>}

--------------------------------------------------------------------------------
(* process_file, write_analysis_to_excel *)

Info(m, a) == [level |-> "INFO", msg |-> m, arg |-> a]
Warning(m, a) == [level |-> "WARNING", msg |-> m, arg |-> a]
Error(m, a) == [level |-> "ERROR", msg |-> m, arg |-> a]

\* Lines 38-46: one line of the file; r holds data_entries and the errors logged.
LineStep(r, line, stem) ==
    CASE line.json = "list" ->
           [r EXCEPT !.data_entries = @ \o line.items]
      [] line.json = "object" ->
           [r EXCEPT !.data_entries = Append(@, line.items[1])]
      [] OTHER ->
           [r EXCEPT !.errors = Append(@, Error("Error reading line in", stem))]

RECURSIVE LineLoop(_, _, _)
LineLoop(r, lines, stem) ==
    IF lines = <<>> THEN r
    ELSE LineLoop(LineStep(r, Head(lines), stem), Tail(lines), stem)

\* process_file(file_path): the entries and the records logged.
process_file(f) ==
    Only({[data_entries |-> r.data_entries,
           logged |-> <<Info("Processing file:", f.stem)>> \o r.errors] :
             r \in {LineLoop([data_entries |-> <<>>, errors |-> <<>>], f.lines, f.stem)}})

\* The document write_analysis_to_excel renders: the overview rows and the five
\* report sheets (a sheet has a row per key of dict(d)); the unique_* sets are
\* not rendered.
write_analysis_to_excel(analysis_stats) ==
    [overview |-> [total |-> analysis_stats.total_tickets,
                   spam |-> analysis_stats.spam_ticket_count,
                   years |-> [y \in dict_keys(analysis_stats.created_at_year_count) |->
                                 analysis_stats.created_at_year_count[y]]],
     tags |-> [k \in dict_keys(analysis_stats.tags_count) |-> analysis_stats.tags_count[k]],
     program_area |-> [k \in dict_keys(analysis_stats.program_area_count) |->
                          analysis_stats.program_area_count[k]],
     segment |-> [k \in dict_keys(analysis_stats.segment_count) |->
                     analysis_stats.segment_count[k]],
     channel |-> [k \in dict_keys(analysis_stats.channel_count) |->
                     analysis_stats.channel_count[k]],
     type_of_inquiry |-> [k \in dict_keys(analysis_stats.type_of_inquiry_count) |->
                             analysis_stats.type_of_inquiry_count[k]]]

--------------------------------------------------------------------------------
(* collate_and_analyze_json_files and __main__ *)

\* os.listdir(input_folder): the source files and the per-file reports, which
\* write_analysis_to_excel puts into the same folder (line 276).
listdir ==
    LET RECURSIVE ReportNames(_)
        ReportNames(ss) ==
            IF ss = {} THEN <<>>
            ELSE LET st == CHOOSE x \in ss : TRUE
                 IN <<[stem |-> st, ext |-> ".xlsx", lines |-> <<>>]>> \o ReportNames(ss \ {st})
    IN files \o ReportNames({st \in Stems : Exists(reports[st])})

\* A variant of the filter that keeps every file of the folder.
JsonFilesUnfiltered(names) == names

\* Line 261: [f for f in names if f.endswith('.json')].
RECURSIVE JsonFiles(_)
JsonFiles(names) ==
    IF names = <<>> THEN <<>>
    ELSE IF Head(names).ext = ".json"
         THEN <<Head(names)>> \o JsonFiles(Tail(names))
         ELSE JsonFiles(Tail(names))

NoCalls ==
    [process_file |-> 0, analyze_data |-> 0, report_writes |-> {},
     merged_writes |-> 0, combined_writes |-> 0, raised |-> "", success |-> FALSE]

Artefacts == [merged |-> merged, reports |-> reports, combined_report |-> combined_report]

Init ==
    /\ files \in Folders
    /\ merged \in {NoFile} \cup {File(m) : m \in StaleMerged}
    /\ reports = [st \in Stems |-> NoFile]
    /\ combined_report = NoFile
    /\ log = <<>>
    /\ pc = "main"
    /\ split_files = <<>>
    /\ idx = 0
    /\ all_data = <<>>
    /\ combined_analysis_stats = <<>>
    /\ exc = ""
    /\ runs = 1
    /\ at_start = <<>>
    /\ calls = NoCalls
    /\ dir_changed = FALSE
    /\ acc = InitialAcc
    /\ entry = <<>>
    /\ apc = "off"

\* Lines 329-337 and 260-261: the logger is set up (the log file is opened with
\* mode 'w'), the run is announced, collate_and_analyze_json_files is entered.
StartRun ==
    /\ pc = "main"
    /\ log' = <<Info("Starting collation and analysis...", "")>>
    /\ all_data' = <<>>
    /\ split_files' = JsonFiles(listdir)
    /\ idx' = 0
    /\ combined_analysis_stats' = <<>>
    /\ exc' = ""
    /\ calls' = NoCalls
    /\ at_start' = <<[merged |-> merged, reports |-> reports,
                      combined_report |-> combined_report,
                      same_folder |-> runs > 1 /\ ~dir_changed]>>
    /\ dir_changed' = FALSE
    /\ pc' = "check_inputs"
    /\ UNCHANGED <<files, merged, reports, combined_report, runs>>
    /\ UNCHANGED analysis_vars

\* Lines 263-265.
NoInputFiles ==
    /\ pc = "check_inputs"
    /\ split_files = <<>>
    /\ log' = Append(log, Error("No JSON files found in the input folder.", ""))
    /\ pc' = "returned"
    /\ UNCHANGED <<files, merged, reports, combined_report, split_files, idx, all_data,
                   combined_analysis_stats, exc, runs, at_start, calls, dir_changed>>
    /\ UNCHANGED analysis_vars

\* Lines 268-276: one iteration of the loop over split_files.
ProcessSplitFile ==
    /\ pc \in {"check_inputs", "loop"}
    /\ idx < Len(split_files)
    /\ \E filename \in {split_files[idx + 1]} :
       \E loaded \in {process_file(filename)} :
       \E analysed \in {analyze_data(loaded.data_entries)} :
       \E document \in {write_analysis_to_excel(analysed.stats)} :
          /\ all_data' = all_data \o loaded.data_entries
          /\ reports' = [reports EXCEPT ![filename.stem] = File(document)]
          /\ log' = log \o loaded.logged \o analysed.warnings
                        \o <<Info("Writing analysis to Excel file:", filename.stem)>>
          /\ calls' = [calls EXCEPT !.process_file = @ + 1,
                                    !.analyze_data = @ + 1,
                                    !.report_writes = @ \cup {filename.stem}]
    /\ idx' = idx + 1
    /\ pc' = "loop"
    /\ UNCHANGED <<files, merged, combined_report, split_files, combined_analysis_stats,
                   exc, runs, at_start, dir_changed>>
    /\ UNCHANGED analysis_vars

\* A variant of the comparison that looks at the records, not at their number.
SameCountByContent(existing_data, data) == existing_data = data

\* A variant of the comparison that never finds the collated data complete.
SameCountNever(existing_data, data) == FALSE

\* Lines 279-289: existing_data_count == total_split_entries.
SameCount(existing_data, data) == Len(existing_data) = Len(data)

\* json.load of what json.dump wrote: the list of records, unchanged.
CollateCommon ==
    /\ pc = "loop"
    /\ idx = Len(split_files)
    /\ pc' = "collated"
    /\ UNCHANGED <<files, reports, combined_report, split_files, idx, all_data,
                   combined_analysis_stats, exc, runs, at_start, dir_changed>>
    /\ UNCHANGED analysis_vars

\* Lines 283-290: the output file exists and holds as many records.
CollateSkip ==
    /\ CollateCommon
    /\ Exists(merged)
    /\ SameCount(Content(merged), all_data)
    /\ log' = log \o <<Info("already exists. Verifying the integrity of the collated data...", ""),
                       Info("The collated data is complete. Skipping re-collation.", "")>>
    /\ UNCHANGED <<merged, calls>>

\* Lines 283-288, 291-294: the output file exists and holds another number of records.
CollateRewrite ==
    /\ CollateCommon
    /\ Exists(merged)
    /\ ~SameCount(Content(merged), all_data)
    /\ log' = log \o <<Info("already exists. Verifying the integrity of the collated data...", ""),
                       Warning("The collated data does not match the split files. Re-collating data...", "")>>
    /\ merged' = File(all_data)
    /\ calls' = [calls EXCEPT !.merged_writes = @ + 1]

\* Lines 295-298: there is no output file.
CollateWrite ==
    /\ CollateCommon
    /\ ~Exists(merged)
    /\ log' = Append(log, Info("Writing combined JSON data to output file...", ""))
    /\ merged' = File(all_data)
    /\ calls' = [calls EXCEPT !.merged_writes = @ + 1]

\* A variant that analyses the union and leaves the report to a later step.
AnalyzeCombinedNoReport ==
    /\ pc = "collated"
    /\ \E analysed \in {analyze_data(all_data)} :
          /\ combined_analysis_stats' = <<analysed.stats>>
          /\ log' = log \o analysed.warnings
    /\ calls' = [calls EXCEPT !.analyze_data = @ + 1]
    /\ pc' = "validate_1"
    /\ UNCHANGED <<files, merged, reports, combined_report, split_files, idx, all_data,
                   exc, runs, at_start, dir_changed>>
    /\ UNCHANGED analysis_vars

\* Lines 301-302.
AnalyzeCombined ==
    /\ pc = "collated"
    /\ \E analysed \in {analyze_data(all_data)} :
       \E document \in {write_analysis_to_excel(analysed.stats)} :
          /\ combined_analysis_stats' = <<analysed.stats>>
          /\ combined_report' = File(document)
          /\ log' = log \o analysed.warnings
                        \o <<Info("Writing analysis to Excel file:", "combined_analysis")>>
    /\ calls' = [calls EXCEPT !.analyze_data = @ + 1, !.combined_writes = @ + 1]
    /\ pc' = "validate_1"
    /\ UNCHANGED <<files, merged, reports, split_files, idx, all_data, exc, runs,
                   at_start, dir_changed>>
    /\ UNCHANGED analysis_vars

\* Lines 305-307.
total_tickets == combined_analysis_stats[1].total_tickets
total_program_area_tickets == sum_values(combined_analysis_stats[1].program_area_count)
spam_ticket_count == combined_analysis_stats[1].spam_ticket_count

\* Line 309.
Check1Fails(total, program_area, spam) == total # program_area + spam

\* A variant of check 2 that lets an empty union pass.
Check2FailsNonEmpty(total, spam) == total = spam /\ total > 0

\* A variant of check 2 that never fails.
Check2FailsNever(total, spam) == FALSE

\* Line 317.
Check2Fails(total, spam) == total = spam

ValidateFrame ==
    UNCHANGED <<files, merged, reports, combined_report, split_files, idx, all_data,
                combined_analysis_stats, runs, at_start, dir_changed, acc, entry, apc>>

\* Lines 309-313.
Validate1Fail ==
    /\ pc = "validate_1"
    /\ Check1Fails(total_tickets, total_program_area_tickets, spam_ticket_count)
    /\ log' = Append(log, Error("Validation failed (1/2)", ""))
    /\ exc' = "Validation failed for combined data."
    /\ calls' = [calls EXCEPT !.raised = "Validation failed for combined data."]
    /\ pc' = "raised"
    /\ ValidateFrame

\* Lines 314-315.
Validate1Pass ==
    /\ pc = "validate_1"
    /\ ~Check1Fails(total_tickets, total_program_area_tickets, spam_ticket_count)
    /\ log' = Append(log, Info("Validation passed (1/2)", ""))
    /\ pc' = "validate_2"
    /\ UNCHANGED <<exc, calls>>
    /\ ValidateFrame

\* Lines 317-321.
Validate2Fail ==
    /\ pc = "validate_2"
    /\ Check2Fails(total_tickets, spam_ticket_count)
    /\ log' = Append(log, Error("Validation failed (2/2)", ""))
    /\ exc' = "All tickets are considered spam."
    /\ calls' = [calls EXCEPT !.raised = "All tickets are considered spam."]
    /\ pc' = "raised"
    /\ ValidateFrame

\* Lines 322-325.
Validate2Pass ==
    /\ pc = "validate_2"
    /\ ~Check2Fails(total_tickets, spam_ticket_count)
    /\ log' = log \o <<Info("Validation passed (2/2)", ""),
                       Info("Collation and analysis completed successfully.", "")>>
    /\ calls' = [calls EXCEPT !.success = TRUE]
    /\ pc' = "returned"
    /\ UNCHANGED exc
    /\ ValidateFrame

\* A variant of the entry point without the try/except: the exception ends
\* the process.
CatchPropagates ==
    /\ pc = "raised"
    /\ pc' = "exited"
    /\ UNCHANGED <<files, merged, reports, combined_report, log, split_files, idx,
                   all_data, combined_analysis_stats, exc, runs, at_start, calls,
                   dir_changed>>
    /\ UNCHANGED analysis_vars

\* Lines 338-339.
Catch ==
    /\ pc = "raised"
    /\ log' = Append(log, Error("An error occurred during processing:", exc))
    /\ exc' = ""
    /\ pc' = "returned"
    /\ UNCHANGED <<files, merged, reports, combined_report, split_files, idx, all_data,
                   combined_analysis_stats, runs, at_start, calls, dir_changed>>
    /\ UNCHANGED analysis_vars

\* Line 340.
Finish ==
    /\ pc = "returned"
    /\ log' = Append(log, Info("Process finished.", ""))
    /\ pc' = "exited"
    /\ UNCHANGED <<files, merged, reports, combined_report, split_files, idx, all_data,
                   combined_analysis_stats, exc, runs, at_start, calls, dir_changed>>
    /\ UNCHANGED analysis_vars

\* The operator runs the program again.
Relaunch ==
    /\ pc = "exited"
    /\ runs < MaxRuns
    /\ runs' = runs + 1
    /\ pc' = "main"
    /\ UNCHANGED <<files, merged, reports, combined_report, log, split_files, idx,
                   all_data, combined_analysis_stats, exc, at_start, calls, dir_changed>>
    /\ UNCHANGED analysis_vars

\* Between two runs the operator takes a file out of the input folder.
RemoveSourceFile ==
    /\ pc = "exited"
    /\ runs < MaxRuns
    /\ ~dir_changed
    /\ \E i \in DOMAIN files :
          files' = [j \in 1..(Len(files) - 1) |-> IF j < i THEN files[j] ELSE files[j + 1]]
    /\ dir_changed' = TRUE
    /\ UNCHANGED <<merged, reports, combined_report, log, pc, split_files, idx, all_data,
                   combined_analysis_stats, exc, runs, at_start, calls>>
    /\ UNCHANGED analysis_vars

Program ==
    \/ StartRun
    \/ NoInputFiles
    \/ ProcessSplitFile
    \/ CollateSkip
    \/ CollateRewrite
    \/ CollateWrite
    \/ AnalyzeCombined
    \/ Validate1Fail
    \/ Validate1Pass
    \/ Validate2Fail
    \/ Validate2Pass
    \/ Catch
    \/ Finish

Next == Program \/ Relaunch \/ RemoveSourceFile

Spec == Init /\ [][Next]_vars

\* The process is sequential and nothing blocks it: a step that can be taken is
\* taken.
FairSpec == Spec /\ WF_vars(Program)

--------------------------------------------------------------------------------
(* One call of analyze_data, stepped entry by entry *)

\* The pipeline is not running while a single call is examined.
PipelineOff ==
    /\ files = <<>>
    /\ merged = <<>>
    /\ reports = <<>>
    /\ combined_report = <<>>
    /\ log = <<>>
    /\ pc = "off"
    /\ split_files = <<>>
    /\ idx = 0
    /\ all_data = <<>>
    /\ combined_analysis_stats = <<>>
    /\ exc = ""
    /\ runs = 0
    /\ at_start = <<>>
    /\ calls = <<>>
    /\ dir_changed = FALSE

InitAnalyze ==
    /\ PipelineOff
    /\ acc = InitialAcc
    /\ entry = <<>>
    /\ apc = "loop"

\* `for entry in data_entries` binds the next entry (line 75).
AnalyzeFetch ==
    /\ apc = "loop"
    /\ acc.n < MaxEntries
    /\ \E e \in Tickets : entry' = <<e>>
    /\ apc' = "body"
    /\ UNCHANGED <<acc, log>>
    /\ UNCHANGED pipeline_vars

\* The body of the loop for the bound entry (lines 76-128).  The entry is not
\* read again once its iteration is over, and the model forgets it.
AnalyzeBody ==
    /\ apc = "body"
    /\ acc' = AnalyzeEntry(acc, entry[1])
    /\ entry' = <<>>
    /\ apc' = "loop"
    /\ UNCHANGED log
    /\ UNCHANGED pipeline_vars

\* data_entries is exhausted: lines 131-147.
AnalyzeReturn ==
    /\ apc = "loop"
    /\ apc' = "returned"
    /\ log' = log \o acc.warnings
    /\ UNCHANGED <<acc, entry>>
    /\ UNCHANGED pipeline_vars

NextAnalyze == AnalyzeFetch \/ AnalyzeBody \/ AnalyzeReturn

SpecAnalyze == InitAnalyze /\ [][NextAnalyze]_vars

--------------------------------------------------------------------------------
(* Properties *)

Messages == {log[i].msg : i \in DOMAIN log}
LastMessage == IF log = <<>> THEN "" ELSE log[Len(log)].msg

\* C1: when analyze_data returns, total_tickets equals the sum of the
\* program_area counts plus spam_ticket_count (every ticket is in exactly one
\* of the two buckets).
C1_TotalIsProgramAreaPlusSpam ==
    apc = "returned" =>
        Result(acc).total_tickets =
            sum_values(Result(acc).program_area_count) + Result(acc).spam_ticket_count

Categories == {"channel", "type_of_inquiry", "program_area", "segment"}

CategoryId(cat) ==
    CASE cat = "channel"         -> "38954747"
      [] cat = "type_of_inquiry" -> "38829288"
      [] cat = "program_area"    -> "38830788"
      [] cat = "segment"         -> "1500001654502"

CountOf(a, cat) ==
    CASE cat = "channel"         -> a.channel_count
      [] cat = "type_of_inquiry" -> a.type_of_inquiry_count
      [] cat = "program_area"    -> a.program_area_count
      [] cat = "segment"         -> a.segment_count

UniqueOf(a, cat) ==
    CASE cat = "channel"         -> a.unique_channels
      [] cat = "type_of_inquiry" -> a.unique_types_of_inquiry
      [] cat = "program_area"    -> a.unique_program_areas
      [] cat = "segment"         -> a.unique_segments

\* The value of the last custom field of ticket e mapped to cat, None without one.
Resolved(e, cat) ==
    LET cf == e.custom_fields
        at == {i \in DOMAIN cf : cf[i].id = CategoryId(cat)}
    IN IF at = {} THEN None
       ELSE cf[CHOOSE i \in at : \A j \in at : j <= i].value

\* C2: for one ticket and each category, analyze_data increments only the
\* counter of the last mapped field's value, by one, when that value is not
\* empty, and no counter otherwise; the distinct-value set gains that value only.
C2_LastFieldAloneIsCounted ==
    [][apc = "body" =>
        \A cat \in Categories :
            LET r == Resolved(entry[1], cat) IN
            /\ \A v \in Values :
                  CountOf(acc', cat)[v] - CountOf(acc, cat)[v] = IF r = v THEN 1 ELSE 0
            /\ UniqueOf(acc', cat) = UniqueOf(acc, cat) \cup (IF Truthy(r) THEN {r} ELSE {})
      ]_vars

\* C3: a run on the folder of the previous run, not edited since, leaves the
\* merged dataset as the previous run left it and writes it at no point.
C3_SecondRunKeepsMerged ==
    (pc # "main" /\ at_start # <<>> /\ at_start[1].same_folder) =>
        /\ merged = at_start[1].merged
        /\ calls.merged_writes = 0

\* C3 witness: a second run on the unedited folder has ended, with records
\* processed and the merged file holding the union.
C3_Witness ==
    /\ pc = "exited"
    /\ runs = 2
    /\ at_start[1].same_folder
    /\ calls.process_file > 0
    /\ Exists(merged)
    /\ Content(merged) = all_data
    /\ all_data # <<>>

NoJsonSource == \A i \in DOMAIN files : files[i].ext # ".json"

\* C4: a run on a folder without input files logs the no-input error and ends
\* with no call of process_file or analyze_data and no write; the merged
\* dataset, the per-file reports and the union report are as they were.
C4_NoInputNoOutput ==
    (pc # "main" /\ ~dir_changed /\ NoJsonSource) =>
        /\ pc \in {"check_inputs", "returned", "exited"}
        /\ calls = NoCalls
        /\ Artefacts = [merged |-> at_start[1].merged,
                        reports |-> at_start[1].reports,
                        combined_report |-> at_start[1].combined_report]
        /\ pc # "check_inputs" => "No JSON files found in the input folder." \in Messages

\* C4 witness: a run on a folder holding only a non-.json file has ended,
\* with a merged file already on disk.
C4_Witness ==
    /\ pc = "exited"
    /\ ~dir_changed
    /\ files # <<>>
    /\ NoJsonSource
    /\ Exists(merged)
    /\ "No JSON files found in the input folder." \in Messages

Validated == pc \in {"raised", "returned", "exited"} /\ combined_analysis_stats # <<>>

ValidationErrors == {"Validation failed for combined data.", "All tickets are considered spam."}

\* C5: a union of at least one ticket in which every ticket is spam makes the
\* run raise a validation error and never log success; success is logged only
\* when total = program_area sum + spam and total # spam.
C5_AllSpamFails ==
    /\ (Validated /\ total_tickets > 0 /\ spam_ticket_count = total_tickets) =>
          /\ calls.raised \in ValidationErrors
          /\ ~calls.success
          /\ "Collation and analysis completed successfully." \notin Messages
    /\ (pc # "main" /\ "Collation and analysis completed successfully." \in Messages) =>
          /\ combined_analysis_stats # <<>>
          /\ total_tickets = total_program_area_tickets + spam_ticket_count
          /\ total_tickets # spam_ticket_count
          /\ calls.raised = ""

\* C5 witness: a run whose union is all spam has ended with the check-2 error
\* caught at the top level.
C5_Witness ==
    /\ pc = "exited"
    /\ combined_analysis_stats # <<>>
    /\ total_tickets > 0
    /\ spam_ticket_count = total_tickets
    /\ calls.raised = "All tickets are considered spam."
    /\ "An error occurred during processing:" \in Messages

\* C6 as stated: when a cross-check fails, the run has not written the union
\* report, and the per-file reports it produced are on disk.
C6_NoUnionReportOnFailure ==
    (pc # "main" /\ calls.raised # "") =>
        /\ calls.combined_writes = 0
        /\ combined_report = at_start[1].combined_report
        /\ \A st \in calls.report_writes : Exists(reports[st])

\* C6 amended: when a cross-check fails, the run has already written the union
\* report (it is rendered before the checks), and the per-file reports it
\* produced, one per split file, are on disk.
C6_UnionReportPrecedesFailure ==
    (pc # "main" /\ calls.raised # "") =>
        /\ calls.combined_writes = 1
        /\ combined_report = File(write_analysis_to_excel(combined_analysis_stats[1]))
        /\ calls.report_writes = {split_files[i].stem : i \in DOMAIN split_files}
        /\ \A st \in calls.report_writes : Exists(reports[st])

\* C6 witness: a run on two split files has ended with check 1 failed, the
\* union report written.
C6_Witness ==
    /\ pc = "exited"
    /\ calls.raised = "Validation failed for combined data."
    /\ calls.combined_writes = 1
    /\ Exists(combined_report)
    /\ Cardinality(calls.report_writes) = 2

\* C7: every launched process eventually logs "Process finished." as its last
\* record, whatever the run did.
C7_AlwaysFinishes ==
    (pc = "main") ~> (pc = "exited" /\ LastMessage = "Process finished.")

\* C7 witness: a process whose run raised a validation error has logged
\* "Process finished." last.
C7_Witness ==
    /\ pc = "exited"
    /\ LastMessage = "Process finished."
    /\ calls.raised # ""
    /\ "An error occurred during processing:" \in Messages

\* The records of the .json files of the folder, in listing order.
RECURSIVE FreshUnion(_)
FreshUnion(names) ==
    IF names = <<>> THEN <<>>
    ELSE IF Head(names).ext = ".json"
         THEN process_file(Head(names)).data_entries \o FreshUnion(Tail(names))
         ELSE FreshUnion(Tail(names))

\* C8: with at least one source file, after the collation step the merged file
\* is the one found when it existed with as many records as the fresh union
\* (whatever its records), and is the fresh union otherwise.
C8_WriteDecisionByCount ==
    pc = "collated" =>
        /\ split_files # <<>>
        /\ IF Exists(at_start[1].merged)
              /\ Len(Content(at_start[1].merged)) = Len(FreshUnion(files))
           THEN merged = at_start[1].merged
           ELSE merged = File(FreshUnion(files))

\* C8 witness: the collation step kept a merged file with as many records as
\* the fresh union and other records.
C8_Witness ==
    /\ pc = "collated"
    /\ Exists(at_start[1].merged)
    /\ merged = at_start[1].merged
    /\ Len(Content(merged)) = Len(FreshUnion(files))
    /\ Content(merged) # FreshUnion(files)
    /\ Len(FreshUnion(files)) > 1

\* created_at strings that match neither format: no fraction, or no timestamp.
MatchNeither == {TsNoFrac, TsGarbage}

YearsUnchanged == acc'.created_at_year_count = acc.created_at_year_count

\* The entry is aggregated apart from its year: its tags are counted, it is
\* classified, and the loop goes on.
RestAggregated ==
    /\ sum_values(acc'.tags_count) = sum_values(acc.tags_count) + Len(entry[1].tags)
    /\ acc'.unique_tags = acc.unique_tags \cup {entry[1].tags[i] : i \in DOMAIN entry[1].tags}
    /\ \A cat \in Categories :
          Truthy(Resolved(entry[1], cat)) => Resolved(entry[1], cat) \in UniqueOf(acc', cat)
    /\ acc'.spam_ticket_count =
          acc.spam_ticket_count + (IF Truthy(Resolved(entry[1], "program_area")) THEN 0 ELSE 1)
    /\ acc'.n = acc.n + 1
    /\ apc' = "loop"

\* C9 as stated: a ticket whose created_at is absent or matches neither format
\* increments no year bucket, has a warning reported, and is aggregated otherwise.
C9_WarnsWhenAbsentOrInvalid ==
    [][(apc = "body" /\ ("created_at" \notin DOMAIN entry[1] \/ entry[1].created_at \in MatchNeither)) =>
        /\ YearsUnchanged
        /\ Len(acc'.warnings) = Len(acc.warnings) + 1
        /\ RestAggregated
      ]_vars

\* C9 amended: a ticket whose created_at matches neither format increments no
\* year bucket and has one warning reported, naming the value; a ticket without
\* created_at increments no year bucket and has no warning reported; both are
\* aggregated otherwise and the loop goes on.
C9_WarnsWhenInvalid ==
    [][apc = "body" =>
        /\ ("created_at" \in DOMAIN entry[1] /\ entry[1].created_at \in MatchNeither) =>
              /\ YearsUnchanged
              /\ acc'.warnings =
                    Append(acc.warnings, Warning("Invalid date format for entry",
                                                 entry[1].created_at.text))
              /\ RestAggregated
        /\ "created_at" \notin DOMAIN entry[1] =>
              /\ YearsUnchanged
              /\ acc'.warnings = acc.warnings
              /\ RestAggregated
      ]_vars

\* C9 witness: analyze_data has returned on two tickets, one of them with
\* created_at "not-a-date", tags and a program area.
C9_Witness ==
    /\ apc = "returned"
    /\ acc.n = 2
    /\ acc.warnings = <<Warning("Invalid date format for entry", "not-a-date")>>
    /\ sum_values(acc.created_at_year_count) = 1
    /\ sum_values(acc.tags_count) > 3
    /\ acc.spam_ticket_count = 0

\* C10: with at least one input file and no ticket at all, check 1 passes,
\* check 2 fails and "All tickets are considered spam." is raised; by then the
\* merged dataset (empty) is on disk and the union report has been written.
C10_EmptyUnionFails ==
    (Validated /\ split_files # <<>> /\ total_tickets = 0) =>
        /\ calls.raised = "All tickets are considered spam."
        /\ ~calls.success
        /\ "Validation passed (1/2)" \in Messages
        /\ "Validation failed (2/2)" \in Messages
        /\ merged = File(<<>>)
        /\ calls.combined_writes = 1
        /\ combined_report = File(write_analysis_to_excel(combined_analysis_stats[1]))

\* C10 witness: check 2 has just raised on an empty union, the merged dataset
\* and the union report written by this run.
C10_Witness ==
    /\ pc = "raised"
    /\ split_files # <<>>
    /\ total_tickets = 0
    /\ exc = "All tickets are considered spam."
    /\ calls.merged_writes = 1
    /\ calls.combined_writes = 1

====
